---- MODULE Spec2Model ----
(***************************************************************************)
(* Model of the GDPR obfuscator (src/src/gdpr_obfuscator.py): the request  *)
(* validation, the fetch from the object store, the CSV transform          *)
(* (csv.DictReader -> mask -> csv.DictWriter) and the optional write of    *)
(* the masked payload to output_location.                                  *)
(*                                                                         *)
(* Text (str) is a sequence of one-character strings.  The characters that *)
(* have a meaning for the CSV dialect or the S3 path are named below.      *)
(***************************************************************************)
EXTENDS Integers, Sequences, FiniteSets, TLC

\* ------------------------------------------------------------------------
\* Characters
\* ------------------------------------------------------------------------
COMMA == ","
DQ    == "Q"      \* the double quote character
LF    == "LF"     \* line feed
CR    == "CR"     \* carriage return
SLASH == "/"
DOT   == "."
EOL   == "EOL"    \* the reader's end-of-line marker, never part of a text

SENTINEL == <<"*", "*", "*">>

\* None, as the value of a dict entry (restval of csv.DictReader)
NoneVal == <<"None">>

\* ------------------------------------------------------------------------
\* Helpers on sequences
\* ------------------------------------------------------------------------
RECURSIVE Flatten(_)
Flatten(ss) == IF ss = <<>> THEN <<>> ELSE Head(ss) \o Flatten(Tail(ss))

SetMax(S) == CHOOSE m \in S : \A x \in S : x <= m

Range(s) == {s[i] : i \in DOMAIN s}

\* a prefix test that compares the first character only
StartsWith_FirstChar(s, p) == Len(s) >= Len(p) /\ s[1] = p[1]

\* str.startswith
StartsWith(s, p) == Len(s) >= Len(p) /\ SubSeq(s, 1, Len(p)) = p

\* the substring test  p in s
Contains(s, p) == \E i \in 1..(Len(s) - Len(p) + 1) : SubSeq(s, i, i + Len(p) - 1) = p

\* ------------------------------------------------------------------------
\* csv.reader (excel dialect: delimiter ',', quotechar '"', doublequote,
\* no escapechar, not strict), the state machine of parse_process_char
\* ------------------------------------------------------------------------
parse_save_field(s) == [s EXCEPT !.fields = Append(@, s.field), !.field = <<>>]

parse_add_char(s, c) == [s EXCEPT !.field = Append(@, c)]

IsNL(c) == c = LF \/ c = CR

AfterNL(c) == IF c = EOL THEN "START_RECORD" ELSE "EAT_CRNL"

StartField(s, c) ==
    IF IsNL(c) \/ c = EOL
    THEN [parse_save_field(s) EXCEPT !.state = AfterNL(c)]
    ELSE IF c = DQ THEN [s EXCEPT !.state = "IN_QUOTED_FIELD"]
    ELSE IF c = COMMA THEN [parse_save_field(s) EXCEPT !.state = "START_FIELD"]
    ELSE [parse_add_char(s, c) EXCEPT !.state = "IN_FIELD"]

parse_process_char(s, c) ==
    CASE s.state = "START_RECORD" ->
           IF c = EOL THEN s
           ELSE IF IsNL(c) THEN [s EXCEPT !.state = "EAT_CRNL"]
           ELSE StartField(s, c)
      [] s.state = "START_FIELD" -> StartField(s, c)
      [] s.state = "IN_FIELD" ->
           IF IsNL(c) \/ c = EOL
           THEN [parse_save_field(s) EXCEPT !.state = AfterNL(c)]
           ELSE IF c = COMMA
           THEN [parse_save_field(s) EXCEPT !.state = "START_FIELD"]
           ELSE parse_add_char(s, c)
      [] s.state = "IN_QUOTED_FIELD" ->
           IF c = EOL THEN s
           ELSE IF c = DQ THEN [s EXCEPT !.state = "QUOTE_IN_QUOTED_FIELD"]
           ELSE parse_add_char(s, c)
      [] s.state = "QUOTE_IN_QUOTED_FIELD" ->
           IF c = DQ
           THEN [parse_add_char(s, c) EXCEPT !.state = "IN_QUOTED_FIELD"]
           ELSE IF c = COMMA
           THEN [parse_save_field(s) EXCEPT !.state = "START_FIELD"]
           ELSE IF IsNL(c) \/ c = EOL
           THEN [parse_save_field(s) EXCEPT !.state = AfterNL(c)]
           ELSE [parse_add_char(s, c) EXCEPT !.state = "IN_FIELD"]
      [] s.state = "EAT_CRNL" ->
           IF IsNL(c) THEN s
           ELSE IF c = EOL THEN [s EXCEPT !.state = "START_RECORD"]
           ELSE [s EXCEPT !.err = TRUE]

\* parse_reset: the state at the start of every record
parse_reset == [state |-> "START_RECORD", field |-> <<>>, fields |-> <<>>, err |-> FALSE]

\* Reader_iternext, called until the input is exhausted: the records of
\* text, and whether reading the record after them raises csv.Error.
\* The lines are those of StringIO (split after each LF); EOL is processed
\* at the end of every line; a record ends when a line leaves the state at
\* START_RECORD, or at the end of the input inside a quoted field.
RECURSIVE Reader_iternext(_, _, _, _)
Reader_iternext(text, i, s, rows) ==
    IF s.err THEN [rows |-> rows, err |-> TRUE]
    ELSE IF i > Len(text)
    THEN IF s.state = "IN_QUOTED_FIELD" \/ Len(s.field) # 0
         THEN [rows |-> Append(rows, parse_save_field(s).fields), err |-> FALSE]
         ELSE [rows |-> rows, err |-> FALSE]
    ELSE LET s1 == parse_process_char(s, text[i])
             endOfLine == text[i] = LF \/ i = Len(text)
             s2 == IF endOfLine /\ ~s1.err THEN parse_process_char(s1, EOL) ELSE s1
         IN IF endOfLine /\ ~s2.err /\ s2.state = "START_RECORD"
            THEN Reader_iternext(text, i + 1, parse_reset, Append(rows, s2.fields))
            ELSE Reader_iternext(text, i + 1, s2, rows)

csv_reader(text) == Reader_iternext(text, 1, parse_reset, <<>>)

\* ------------------------------------------------------------------------
\* csv.writer (QUOTE_MINIMAL, lineterminator '\r\n')
\* ------------------------------------------------------------------------
\* a writer that does not quote the delimiter
NeedsQuote_NoDelimiter(c) == c = DQ \/ c = CR \/ c = LF

NeedsQuote(c) == c = COMMA \/ c = DQ \/ c = CR \/ c = LF

\* a writer that quotes a field without doubling the quotes inside it
join_append_data_NoDoubling(field) ==
    IF \E i \in DOMAIN field : NeedsQuote(field[i])
    THEN <<DQ>> \o field \o <<DQ>>
    ELSE field

\* join_append_data: the quote character is doubled, and the field is
\* quoted when it holds a delimiter, a quote or a line terminator character
join_append_data(field) ==
    LET body == Flatten([i \in DOMAIN field |->
                           IF field[i] = DQ THEN <<DQ, DQ>> ELSE <<field[i]>>])
    IN IF \E i \in DOMAIN field : NeedsQuote(field[i])
       THEN <<DQ>> \o body \o <<DQ>>
       ELSE body

\* None is written as the empty string
FieldText(v) == IF v = NoneVal THEN <<>> ELSE v

RECURSIVE JoinFields(_)
JoinFields(fs) ==
    IF fs = <<>> THEN <<>>
    ELSE IF Len(fs) = 1 THEN join_append_data(FieldText(fs[1]))
    ELSE join_append_data(FieldText(fs[1])) \o <<COMMA>> \o JoinFields(Tail(fs))

\* a writer that writes a record made of one empty field as an empty line
csv_writerow_EmptyLine(fs) == JoinFields(fs) \o <<CR, LF>>

\* csv_writerow: a record made of one empty field is written as ""
csv_writerow(fs) ==
    LET rec == JoinFields(fs)
    IN (IF Len(fs) > 0 /\ rec = <<>> THEN <<DQ, DQ>> ELSE rec) \o <<CR, LF>>

\* ------------------------------------------------------------------------
\* csv.DictReader / csv.DictWriter
\* ------------------------------------------------------------------------
\* DictReader.fieldnames: the first record, None when there is none
\* DictReader.__next__: the later records, the empty ones skipped
DataRows(recs) == SelectSeq(Tail(recs), LAMBDA r : r # <<>>)

\* dict(zip(fieldnames, row)), then restval for the names past the row: the
\* last column of a name decides its value
RowDict(fieldnames, row) ==
    [name \in Range(fieldnames) |->
        LET last == SetMax({i \in DOMAIN fieldnames : fieldnames[i] = name})
        IN IF last > Len(row) THEN NoneVal ELSE row[last]]

\* a writer that ignores the key None (extrasaction='ignore')
HasRestKey_Ignored(fieldnames, row) == FALSE

\* a row longer than the header puts its tail under the key None (restkey)
HasRestKey(fieldnames, row) == Len(row) > Len(fieldnames)

\* a loop that leaves an empty value as it is
MaskRow_KeepEmpty(d, pii_fields) ==
    [name \in DOMAIN d |->
        IF name \in Range(pii_fields) /\ d[name] # <<>> THEN SENTINEL ELSE d[name]]

\* a loop that stops after the first name of pii_fields
MaskRow_FirstOnly(d, pii_fields) ==
    [name \in DOMAIN d |->
        IF pii_fields # <<>> /\ name = pii_fields[1] THEN SENTINEL ELSE d[name]]

\* for field in pii_fields: row[field] = '***'
MaskRow(d, pii_fields) ==
    [name \in DOMAIN d |-> IF name \in Range(pii_fields) THEN SENTINEL ELSE d[name]]

\* DictWriter._dict_to_list
dict_to_list(fieldnames, d) == [i \in DOMAIN fieldnames |-> d[fieldnames[i]]]

\* ------------------------------------------------------------------------
\* Bounds and input sets
\* ------------------------------------------------------------------------
MaxRows == 2      \* records after the header in a payload
MaxTail == 6      \* characters after 's3://' in a generated path
MaxPii  == 2      \* names in a generated pii_fields list

A  == <<"a">>
B  == <<"b">>
C  == <<"c">>
D  == <<"d">>
AB == <<"a", COMMA, "b">>

S3Scheme == <<"s", "3", ":", SLASH, SLASH>>

\* every text over S of length at most n
TextsUpTo(S, n) == UNION {[1..k -> S] : k \in 0..n}

GoodSource == S3Scheme \o <<"b", SLASH, "k">>
GoodDest   == S3Scheme \o <<"b", SLASH, "o">>

\* paths after the scheme: bucket and key over a letter, '/' and '.'
S3Paths == {S3Scheme \o t : t \in TextsUpTo({"b", SLASH, DOT}, MaxTail)}

\* paths that do not start with the scheme
OtherPaths == {<<>>, <<"b", SLASH, "k">>, <<"s", "3", ":", SLASH, "b", SLASH, "k">>,
               <<"S", "3", ":", SLASH, SLASH, "b", SLASH, "k">>}

\* header lines and record lines of the payloads, without their terminator
HeaderTexts == {
    <<"a", COMMA, "b">>,
    <<"b", COMMA, "a">>,
    <<"a", COMMA, "b", COMMA, "a">>,
    <<"a">>,
    <<DQ, "a", COMMA, "b", DQ, COMMA, "b">>,
    <<"a", CR, "b">>,
    <<>> }

RowTexts == {
    <<"a", COMMA, "b">>,
    <<"b", COMMA, "a">>,
    <<"a">>,
    <<"a", COMMA, "a", COMMA, "b">>,
    <<>>,
    <<DQ, "a", COMMA, "b", DQ, COMMA, "b">>,
    <<DQ, "a", DQ, DQ, DQ, COMMA, "a">>,
    <<DQ, "a", LF, "b", DQ, COMMA, "b">>,
    <<"a", DQ, "b", COMMA, "b">>,
    <<DQ, "b", COMMA>>,
    <<"a", CR, "b">>,
    <<DQ, DQ>> }

\* line terminators of a payload, and whether the last line has one
Terminators == {[nl |-> <<LF>>, last |-> TRUE], [nl |-> <<CR, LF>>, last |-> TRUE],
                [nl |-> <<LF>>, last |-> FALSE]}

RECURSIVE JoinLines(_, _, _)
JoinLines(ls, nl, last) ==
    IF ls = <<>> THEN <<>>
    ELSE IF Len(ls) = 1 THEN Head(ls) \o (IF last THEN nl ELSE <<>>)
    ELSE Head(ls) \o nl \o JoinLines(Tail(ls), nl, last)

PayloadsOf(headers, rowSeqs) ==
    {JoinLines(<<h>> \o rs, t.nl, t.last) : h \in headers, rs \in rowSeqs, t \in Terminators}

\* the record lines that payloads of up to MaxRows records are made of
CoreRows == {
    <<"b", COMMA, "a">>,
    <<"a">>,
    <<DQ, "a", COMMA, "b", DQ, COMMA, "b">>,
    <<>> }

\* payloads of up to MaxRows records
Payloads == PayloadsOf(HeaderTexts, TextsUpTo(CoreRows, MaxRows))

\* payloads of every one or two record lines
PairPayloads ==
    PayloadsOf(HeaderTexts, {<<>>} \cup {<<r>> : r \in RowTexts}
                                  \cup {<<r1, r2>> : r1 \in RowTexts, r2 \in RowTexts})

\* payloads of a header and at most one record, terminated by a line feed
PlainPayloads ==
    {JoinLines(<<h>> \o rs, <<LF>>, TRUE) :
        h \in HeaderTexts, rs \in {<<>>, <<<<"b", COMMA, "a">>>>, <<<<"a", COMMA, "a", COMMA, "b">>>>}}

SmallPayloads ==
    PayloadsOf({<<"a", COMMA, "b">>}, {<<>>, <<<<"a", COMMA, "b">>>>, <<<<"b">>>>})

\* what the store holds at the source location
Present(text) == [status |-> "present", utf8 |-> TRUE, text |-> text]
NotUtf8       == [status |-> "present", utf8 |-> FALSE, text |-> <<>>]
Missing       == [status |-> "missing", utf8 |-> TRUE, text |-> <<>>]
Denied        == [status |-> "denied", utf8 |-> TRUE, text |-> <<>>]

\* ------------------------------------------------------------------------
\* The request: the value json.loads gives for input_json
\* ------------------------------------------------------------------------
\* a key of the object: absent, or a value of some JSON type
Absent       == [present |-> FALSE, type |-> "none", s |-> <<>>, list |-> <<>>]
Str(s)       == [present |-> TRUE, type |-> "str", s |-> s, list |-> <<>>]
List(l)      == [present |-> TRUE, type |-> "list", s |-> <<>>, list |-> l]
Null         == [present |-> TRUE, type |-> "null", s |-> <<>>, list |-> <<>>]
Number       == [present |-> TRUE, type |-> "number", s |-> <<>>, list |-> <<>>]

Object(f, p, o) == [shape |-> "object", file_to_obfuscate |-> f, pii_fields |-> p,
                    output_location |-> o]
\* a string that is not JSON, a JSON array, a JSON number/null/boolean
NotJson    == [shape |-> "invalid", file_to_obfuscate |-> Absent, pii_fields |-> Absent,
               output_location |-> Absent]
JsonArray  == [NotJson EXCEPT !.shape = "array"]
JsonScalar == [NotJson EXCEPT !.shape = "scalar"]

PiiLists   == TextsUpTo({A, B, C, D}, MaxPii)
SmallPii   == {<<>>, <<A>>, <<B>>, <<A, B>>, <<AB>>}

\* ------------------------------------------------------------------------
\* State of one call of obfuscate_pii and of the store it talks to
\* ------------------------------------------------------------------------
VARIABLES
    input_json,       \* the request, as json.loads reads it
    source,           \* what the store holds at the source location
    pc,               \* position of the call
    s3_path,          \* input_data['file_to_obfuscate']
    bucket, key,      \* the source location
    pii_fields,       \* input_data['pii_fields']
    output_location,  \* input_data.get('output_location')
    csv_content,      \* the decoded payload
    fieldnames,       \* reader.fieldnames
    reader,           \* records the reader has not given yet, and its error
    output,           \* the text written so far
    row_count,
    result,           \* the returned bytes
    returned,         \* TRUE once the call has returned result
    raised,           \* the exception that left the call
    ops,              \* the calls made on the store client, in order
    objects,          \* the objects put in the store by the call
    errlog,           \* the messages of logger.error, in order
    event,            \* the event lambda_handler is invoked with
    env,              \* the PII_FIELDS environment variable
    lpc,              \* position of lambda_handler; "none" for a direct call
    response,         \* the response of lambda_handler
    frame,            \* a call of GDPRObfuscator.obfuscate_csv: arguments, df, outcome
    cli,              \* a run of process_local_file or process_s3_file
    pair              \* two calls of obfuscate_pii on one store

vars == <<input_json, source, pc, s3_path, bucket, key, pii_fields, output_location,
          csv_content, fieldnames, reader, output, row_count, result, returned,
          raised, ops, objects, errlog, event, env, lpc, response, frame, cli, pair>>

lambdaVars == <<event, env, lpc, response>>

\* the state of the other entry points of the repository
otherVars == <<frame, cli, pair>>

locals == <<s3_path, bucket, key, pii_fields, output_location, csv_content,
            fieldnames, reader, output, row_count>>

NoError == [type |-> "none", msg |-> "", arg |-> <<>>]
Exc(t, m) == [type |-> t, msg |-> m, arg |-> <<>>]
ExcArg(t, m, a) == [type |-> t, msg |-> m, arg |-> a]

\* the exception classes that are ValueError or a subclass of it
IsValueError(e) == e.type \in {"ValueError", "UnicodeDecodeError"}

InitCall(req, src) ==
    /\ input_json = req
    /\ source = src
    /\ pc = "validate"
    /\ s3_path = <<>> /\ bucket = <<>> /\ key = <<>>
    /\ pii_fields = <<>>
    /\ output_location = Absent
    /\ csv_content = <<>>
    /\ fieldnames = <<>>
    /\ reader = [rows |-> <<>>, err |-> FALSE]
    /\ output = <<>>
    /\ row_count = 0
    /\ result = <<>>
    /\ returned = FALSE
    /\ raised = NoError
    /\ ops = <<>>
    /\ objects = {}
    /\ errlog = <<>>

\* a call of obfuscate_pii that is not made by lambda_handler
NoEvent == [shape |-> "none", pii_fields |-> Absent, file_to_obfuscate |-> Absent,
            output_path |-> Absent,
            Records |-> [kind |-> "absent", bucket |-> <<>>, key |-> <<>>]]
NoResponse == [statusCode |-> 0, body |-> <<>>]

\* no call of obfuscate_csv, no run of the command line, no second call
NoFrame == [pc |-> "none", csv_data |-> [none |-> TRUE, text |-> <<>>], pii_fields |-> <<>>,
            df |-> [columns |-> <<>>, rows |-> <<>>], out |-> <<>>, raised |-> NoError]
NotWritten == [written |-> FALSE, data |-> <<>>]
NoValue == [kind |-> "none", statusCode |-> 0, body |-> Absent]
NoStub == [kind |-> "none", valid |-> FALSE, text |-> <<>>, value |-> NoValue]
NoCli == [pc |-> "none", fn |-> "none", file |-> Missing, s3_path |-> <<>>,
          pii_fields |-> <<>>, output_file |-> Absent, upload |-> "ok", stub |-> NoStub,
          stdout |-> NotWritten, outfile |-> NotWritten, uploaded |-> {}, exit |-> "none"]
NoPair == [store0 |-> <<>>, store |-> <<>>, calls |-> <<>>]

InitDirect(req, src) ==
    /\ InitCall(req, src)
    /\ event = NoEvent
    /\ env = Absent
    /\ lpc = "none"
    /\ response = NoResponse
    /\ frame = NoFrame /\ cli = NoCli /\ pair = NoPair

\* requests of every shape, on a small store
InitRequest ==
    \E req \in {NotJson, JsonArray, JsonScalar}
               \cup {Object(f, p, o) :
                       f \in {Absent, Number, Str(GoodSource), Str(<<"b", SLASH, "k">>)},
                       p \in {Absent, Null, Str(A), List(<<>>), List(<<A>>)},
                       o \in {Absent, Null, Number, Str(<<>>), Str(GoodDest),
                              Str(<<"b", SLASH, "o">>)}},
       src \in {Missing, Denied, NotUtf8} \cup {Present(t) : t \in SmallPayloads} :
        InitDirect(req, src)

\* every source path
InitSource ==
    \E f \in S3Paths \cup OtherPaths, o \in {Absent, Str(GoodDest)},
       src \in {Missing, Present(<<"a", COMMA, "b", LF, "b", COMMA, "a", LF>>)} :
        InitDirect(Object(Str(f), List(<<A>>), o), src)

\* every destination path
InitDest ==
    \E o \in S3Paths \cup OtherPaths,
       src \in {Missing, Present(<<"a", COMMA, "b", LF, "b", COMMA, "a", LF>>)} :
        InitDirect(Object(Str(GoodSource), List(<<A>>), Str(o)), src)

\* every pii_fields list
InitFields ==
    \E p \in PiiLists, o \in {Absent, Str(GoodDest)}, t \in PlainPayloads :
        InitDirect(Object(Str(GoodSource), List(p), o), Present(t))

\* every payload of up to MaxRows records
InitPayload ==
    \E p \in {<<A>>, <<B>>, <<A, B>>}, t \in Payloads \cup {<<>>} :
        InitDirect(Object(Str(GoodSource), List(p), Absent), Present(t))

\* every payload of one or two records of any kind
InitPairs ==
    \E p \in SmallPii, t \in PairPayloads :
        InitDirect(Object(Str(GoodSource), List(p), Absent), Present(t))

\* the failures that are logged with logger.error before they are raised
Logged(e) == e.msg \in {"Invalid JSON input", "S3 file not found", "S3 client error",
                        "CSV file has no headers", "PII field not found in CSV headers"}

Raise(e) ==
    /\ pc' = "raised"
    /\ raised' = e
    /\ errlog' = IF Logged(e) THEN Append(errlog, e.msg) ELSE errlog
    /\ UNCHANGED <<result, returned>>

\* ------------------------------------------------------------------------
\* obfuscate_pii, lines 33-64: parse and validate the request
\* ------------------------------------------------------------------------
\* s3_path[5:].split("/", 1)
AfterScheme(path) == SubSeq(path, 6, Len(path))
HasSlash(t) == \E i \in DOMAIN t : t[i] = SLASH
FirstSlash(t) == CHOOSE i \in DOMAIN t : t[i] = SLASH /\ \A j \in 1..(i - 1) : t[j] # SLASH
SplitBucket(t) == SubSeq(t, 1, FirstSlash(t) - 1)
\* a split on the last '/' instead of the first
SplitKey_Last(t) ==
    LET last == CHOOSE i \in DOMAIN t : t[i] = SLASH /\ \A j \in (i + 1)..Len(t) : t[j] # SLASH
    IN SubSeq(t, last + 1, Len(t))

SplitKey(t) == SubSeq(t, FirstSlash(t) + 1, Len(t))

\* a guard that looks for '..' as a whole path segment only
PathTraversal_SegmentOnly(k) ==
    \/ StartsWith(k, <<SLASH>>)
    \/ \E i \in 1..(Len(k) - 1) :
          /\ k[i] = DOT /\ k[i + 1] = DOT
          /\ (i = 1 \/ k[i - 1] = SLASH)
          /\ (i + 1 = Len(k) \/ k[i + 2] = SLASH)

\* a guard that forgets the leading separator
PathTraversal_NoLeading(k) == Contains(k, <<DOT, DOT>>)

\* '..' in key or key.startswith('/')
PathTraversal(k) == Contains(k, <<DOT, DOT>>) \/ StartsWith(k, <<SLASH>>)

\* the exception the validation of req ends in, NoError when it passes
ValidateError(req) ==
    IF req.shape = "invalid" THEN Exc("ValueError", "Invalid JSON input")
    ELSE IF req.shape = "scalar" THEN Exc("TypeError", "argument is not iterable")
    ELSE IF req.shape = "array" \/ ~req.file_to_obfuscate.present \/ ~req.pii_fields.present
    THEN Exc("ValueError", "Missing required keys in input JSON")
    ELSE IF req.pii_fields.type # "list"
    THEN Exc("ValueError", "pii_fields must be a list")
    ELSE IF req.file_to_obfuscate.type # "str"
    THEN Exc("AttributeError", "object has no attribute startswith")
    ELSE IF ~StartsWith(req.file_to_obfuscate.s, S3Scheme)
    THEN Exc("ValueError", "Invalid S3 path")
    ELSE IF ~HasSlash(AfterScheme(req.file_to_obfuscate.s))
    THEN Exc("ValueError", "not enough values to unpack")
    ELSE IF PathTraversal(SplitKey(AfterScheme(req.file_to_obfuscate.s)))
    THEN Exc("ValueError", "Invalid S3 key: potential path traversal detected")
    ELSE NoError

Validate ==
    /\ pc = "validate"
    /\ lpc \in {"none", "call"}
    /\ cli.pc \in {"none", "call"}
    /\ LET e == ValidateError(input_json)
           t == AfterScheme(input_json.file_to_obfuscate.s)
       IN IF e # NoError
          THEN /\ Raise(e)
               /\ UNCHANGED locals
          ELSE /\ pc' = "fetch"
               /\ s3_path' = input_json.file_to_obfuscate.s
               /\ pii_fields' = input_json.pii_fields.list
               /\ bucket' = SplitBucket(t)
               /\ key' = SplitKey(t)
               /\ output_location' = input_json.output_location
               /\ UNCHANGED <<csv_content, fieldnames, reader, output, row_count,
                              result, returned, raised, errlog>>
    /\ UNCHANGED <<input_json, source, ops, objects, lambdaVars, otherVars>>

\* ------------------------------------------------------------------------
\* obfuscate_pii, lines 66-77: download the payload
\* ------------------------------------------------------------------------
\* a put that leaves the content type to the client's default
PutOp_Untyped(b, k, body) == [op |-> "Put", bucket |-> b, key |-> k, body |-> body,
                              contentType |-> ""]

GetOp(b, k) == [op |-> "Get", bucket |-> b, key |-> k, body |-> <<>>, contentType |-> ""]
PutOp(b, k, body) == [op |-> "Put", bucket |-> b, key |-> k, body |-> body,
                      contentType |-> "text/csv"]

\* the client refuses an empty Bucket or Key before it sends the request
ParamInvalid(b, k) == b = <<>> \/ k = <<>>

\* a decode that drops the bytes it cannot read (errors='ignore')
FetchError_IgnoreDecode(b, k, src) ==
    IF ParamInvalid(b, k) THEN Exc("ParamValidationError", "Parameter validation failed")
    ELSE IF src.status = "missing" THEN Exc("ValueError", "S3 file not found")
    ELSE IF src.status = "denied" THEN Exc("ValueError", "S3 client error")
    ELSE NoError

\* the exception s3_client.get_object(...)['Body'].read().decode('utf-8')
\* leaves the try statement with, NoError when the payload is decoded
FetchError(b, k, src) ==
    IF ParamInvalid(b, k) THEN Exc("ParamValidationError", "Parameter validation failed")
    ELSE IF src.status = "missing" THEN Exc("ValueError", "S3 file not found")
    ELSE IF src.status = "denied" THEN Exc("ValueError", "S3 client error")
    ELSE IF ~src.utf8 THEN Exc("UnicodeDecodeError", "invalid start byte")
    ELSE NoError

Fetch ==
    /\ pc = "fetch"
    /\ ops' = Append(ops, GetOp(bucket, key))
    /\ LET e == FetchError(bucket, key, source)
       IN IF e # NoError
          THEN /\ Raise(e)
               /\ UNCHANGED csv_content
          ELSE /\ pc' = "header"
               /\ csv_content' = source.text
               /\ UNCHANGED <<result, returned, raised, errlog>>
    /\ UNCHANGED <<input_json, source, s3_path, bucket, key, pii_fields, output_location,
                   fieldnames, reader, output, row_count, objects, lambdaVars, otherVars>>

\* ------------------------------------------------------------------------
\* obfuscate_pii, lines 79-100: read the header, check pii_fields against
\* it, write the header
\* ------------------------------------------------------------------------
\* a check that reports the last missing name instead of the first
RECURSIVE FirstMissing_Last(_, _)
FirstMissing_Last(fields, names) ==
    IF fields = <<>> THEN <<>>
    ELSE IF FirstMissing_Last(Tail(fields), names) # <<>>
    THEN FirstMissing_Last(Tail(fields), names)
    ELSE IF Head(fields) \notin Range(names) THEN <<Head(fields)>>
    ELSE <<>>

\* the first name of fields, in order, that is not in names; <<>> if none
RECURSIVE FirstMissing(_, _)
FirstMissing(fields, names) ==
    IF fields = <<>> THEN <<>>
    ELSE IF Head(fields) \notin Range(names) THEN <<Head(fields)>>
    ELSE FirstMissing(Tail(fields), names)

\* the exception lines 79-93 end in for the records recs of the payload
HeaderError(recs, fields) ==
    IF recs.rows = <<>> /\ recs.err
    THEN Exc("csv.Error", "new-line character seen in unquoted field")
    ELSE IF recs.rows = <<>> \/ recs.rows[1] = <<>>
    THEN Exc("ValueError", "CSV file has no headers")
    ELSE IF FirstMissing(fields, recs.rows[1]) # <<>>
    THEN ExcArg("ValueError", "PII field not found in CSV headers",
                FirstMissing(fields, recs.rows[1])[1])
    ELSE NoError

ReadHeader ==
    /\ pc = "header"
    /\ LET recs == csv_reader(csv_content)
           e == HeaderError(recs, pii_fields)
       IN IF e # NoError
          THEN /\ Raise(e)
               /\ UNCHANGED <<fieldnames, reader, output>>
          ELSE /\ pc' = "rows"
               /\ fieldnames' = recs.rows[1]
               /\ reader' = [rows |-> DataRows(recs.rows), err |-> recs.err]
               /\ output' = csv_writerow(recs.rows[1])
               /\ UNCHANGED <<result, returned, raised, errlog>>
    /\ UNCHANGED <<input_json, source, s3_path, bucket, key, pii_fields, output_location,
                   csv_content, row_count, ops, objects, lambdaVars, otherVars>>

\* ------------------------------------------------------------------------
\* obfuscate_pii, lines 103-107: one turn of the loop over the records
\* ------------------------------------------------------------------------
\* the line writer.writerow(row) adds to the output for the record row
MaskedLine(names, fields, row) ==
    csv_writerow(dict_to_list(names, MaskRow(RowDict(names, row), fields)))

ProcessRow ==
    /\ pc = "rows"
    /\ reader.rows # <<>> \/ reader.err
    /\ IF reader.rows = <<>>
       THEN /\ Raise(Exc("csv.Error", "new-line character seen in unquoted field"))
            /\ UNCHANGED <<reader, output, row_count>>
       ELSE IF HasRestKey(fieldnames, Head(reader.rows))
       THEN /\ Raise(Exc("ValueError", "dict contains fields not in fieldnames"))
            /\ reader' = [reader EXCEPT !.rows = Tail(@)]
            /\ UNCHANGED <<output, row_count>>
       ELSE /\ reader' = [reader EXCEPT !.rows = Tail(@)]
            /\ output' = output \o MaskedLine(fieldnames, pii_fields, Head(reader.rows))
            /\ row_count' = row_count + 1
            /\ UNCHANGED <<pc, result, returned, raised, errlog>>
    /\ UNCHANGED <<input_json, source, s3_path, bucket, key, pii_fields, output_location,
                   csv_content, fieldnames, ops, objects, lambdaVars, otherVars>>

\* lines 79-111 as a function of the decoded payload: the encoded output,
\* or no output when the header or a record makes the call raise
ObfuscateText(fields, text) ==
    LET recs == csv_reader(text)
    IN IF HeaderError(recs, fields) # NoError
       THEN [ok |-> FALSE, out |-> <<>>]
       ELSE LET names == recs.rows[1]
                rows == DataRows(recs.rows)
            IN IF recs.err \/ \E r \in DOMAIN rows : HasRestKey(names, rows[r])
               THEN [ok |-> FALSE, out |-> <<>>]
               ELSE [ok |-> TRUE,
                     out |-> csv_writerow(names)
                             \o Flatten([r \in DOMAIN rows |->
                                            MaskedLine(names, fields, rows[r])])]

\* ------------------------------------------------------------------------
\* obfuscate_pii, lines 109-112: the reader is exhausted, encode the output
\* ------------------------------------------------------------------------
\* an encoding step that does not wait for the reader to be exhausted
Encode_Early ==
    /\ pc = "rows"
    /\ ~reader.err
    /\ result' = output
    /\ pc' = "write"
    /\ UNCHANGED <<input_json, source, locals, returned, raised, ops, objects, errlog,
                   lambdaVars, otherVars>>

Encode ==
    /\ pc = "rows"
    /\ reader.rows = <<>> /\ ~reader.err
    /\ result' = output
    /\ pc' = "write"
    /\ UNCHANGED <<input_json, source, locals, returned, raised, ops, objects, errlog,
                   lambdaVars, otherVars>>

\* ------------------------------------------------------------------------
\* obfuscate_pii, lines 114-128: write to output_location, return
\* ------------------------------------------------------------------------
\* bool(output_location)
Truthy(v) == v.present /\ v.type # "null" /\ ~(v.type = "str" /\ v.s = <<>>)

\* a handler that turns the failure of the put into a failure of the call
PutFailure_Raised == Exc("ValueError", "Failed to write to S3")

\* lines 125-126: what leaves the try statement when put_object raises
\* ClientError: nothing, the failure is logged
PutFailure == NoError

Return ==
    /\ pc' = "returned"
    /\ returned' = TRUE
    /\ UNCHANGED <<result, raised>>

WriteOutput ==
    /\ pc = "write"
    /\ IF ~Truthy(output_location)
       THEN Return /\ UNCHANGED <<ops, objects, errlog>>
       ELSE IF output_location.type # "str"
       THEN /\ Raise(Exc("AttributeError", "object has no attribute startswith"))
            /\ UNCHANGED <<ops, objects>>
       ELSE IF ~StartsWith(output_location.s, S3Scheme)
       THEN Return /\ UNCHANGED <<ops, objects, errlog>>
       ELSE IF ~HasSlash(AfterScheme(output_location.s))
       THEN /\ Raise(Exc("ValueError", "not enough values to unpack"))
            /\ UNCHANGED <<ops, objects>>
       ELSE LET t == AfterScheme(output_location.s)
                put == PutOp(SplitBucket(t), SplitKey(t), result)
            IN /\ ops' = Append(ops, put)
               /\ IF ParamInvalid(put.bucket, put.key)
                  THEN /\ Raise(Exc("ParamValidationError", "Parameter validation failed"))
                       /\ UNCHANGED objects
                  ELSE \E stored \in BOOLEAN :
                         /\ objects' = IF stored THEN objects \cup {put} ELSE objects
                         /\ errlog' = IF stored THEN errlog
                                      ELSE Append(errlog, "Failed to write to S3")
                         /\ IF stored \/ PutFailure = NoError
                            THEN Return
                            ELSE /\ pc' = "raised"
                                 /\ raised' = PutFailure
                                 /\ UNCHANGED <<result, returned>>
    /\ UNCHANGED <<input_json, source, locals, lambdaVars, otherVars>>

\* ------------------------------------------------------------------------
\* lambda_handler (src/lambda_function/lambda_function.py)
\* ------------------------------------------------------------------------
\* str.split(','): the texts between the commas
RECURSIVE Split(_, _)
Split(t, sep) ==
    IF \E i \in DOMAIN t : t[i] = sep
    THEN LET i == CHOOSE i \in DOMAIN t : t[i] = sep /\ \A j \in 1..(i - 1) : t[j] # sep
         IN <<SubSeq(t, 1, i - 1)>> \o Split(SubSeq(t, i + 1, Len(t)), sep)
    ELSE <<t>>

Resolved(l) == [ok |-> TRUE, list |-> l, body |-> <<>>]
Refused(m)  == [ok |-> FALSE, list |-> <<>>, body |-> <<m>>]

\* a handler that reads the environment before the event
ResolveFields_EnvFirst(ev, e) ==
    IF e.present /\ e.s # <<>> THEN Resolved(Split(e.s, COMMA))
    ELSE IF ev.pii_fields.present
    THEN IF ev.pii_fields.type # "list" \/ ev.pii_fields.list = <<>>
         THEN Refused("PII fields must be a non-empty list")
         ELSE Resolved(ev.pii_fields.list)
    ELSE Refused("PII_FIELDS environment variable must be set")

\* a handler that does not test the list of the event for emptiness
ResolveFields_AnyList(ev, e) ==
    IF ev.pii_fields.present
    THEN IF ev.pii_fields.type # "list"
         THEN Refused("PII fields must be a non-empty list")
         ELSE Resolved(ev.pii_fields.list)
    ELSE IF ~e.present \/ e.s = <<>>
    THEN Refused("PII_FIELDS environment variable must be set")
    ELSE Resolved(Split(e.s, COMMA))

\* lines 33-56: the field list, from the event or from PII_FIELDS
ResolveFields(ev, e) ==
    IF ev.pii_fields.present
    THEN IF ev.pii_fields.type # "list" \/ ev.pii_fields.list = <<>>
         THEN Refused("PII fields must be a non-empty list")
         ELSE Resolved(ev.pii_fields.list)
    ELSE IF ~e.present \/ e.s = <<>>
    THEN Refused("PII_FIELDS environment variable must be set")
    ELSE Resolved(Split(e.s, COMMA))

\* lines 68-69 and 86-87: output_location, when output_path is given and truthy
OutputOf(ev) == IF Truthy(ev.output_path) THEN ev.output_path ELSE Absent

\* the Records of an event: absent, an empty list, a list whose first
\* record lacks the s3 keys, a list whose first record names an object
NoRecords        == [kind |-> "absent", bucket |-> <<>>, key |-> <<>>]
EmptyRecords     == [kind |-> "empty", bucket |-> <<>>, key |-> <<>>]
MalformedRecords == [kind |-> "malformed", bucket |-> <<>>, key |-> <<>>]
S3Records(b, k)  == [kind |-> "s3", bucket |-> b, key |-> k]

Event(p, f, o, r) == [shape |-> "object", pii_fields |-> p, file_to_obfuscate |-> f,
                      output_path |-> o, Records |-> r]
NullEvent == [shape |-> "null", pii_fields |-> Absent, file_to_obfuscate |-> Absent,
              output_path |-> Absent, Records |-> NoRecords]

\* input_json before lambda_handler has built it
NoInput == [NotJson EXCEPT !.shape = "unset"]

Respond(code, body) ==
    /\ response' = [statusCode |-> code, body |-> body]
    /\ lpc' = "done"

\* lines 33-96: build input_json from the event, or answer 400 (500 when
\* the event cannot be read)
LambdaBuild ==
    /\ lpc = "build"
    /\ LET fields == ResolveFields(event, env)
       IN IF event.shape # "object"
          THEN /\ Respond(500, <<"Error processing file">>)
               /\ UNCHANGED input_json
          ELSE IF ~fields.ok
          THEN /\ Respond(400, fields.body)
               /\ UNCHANGED input_json
          ELSE IF event.file_to_obfuscate.present
          THEN /\ input_json' = Object(event.file_to_obfuscate, List(fields.list),
                                       OutputOf(event))
               /\ lpc' = "call"
               /\ UNCHANGED response
          ELSE IF event.Records.kind = "s3"
          THEN /\ input_json' = Object(Str(S3Scheme \o event.Records.bucket \o <<SLASH>>
                                             \o event.Records.key),
                                       List(fields.list), OutputOf(event))
               /\ lpc' = "call"
               /\ UNCHANGED response
          ELSE IF event.Records.kind = "malformed"
          THEN /\ Respond(500, <<"Error processing file">>)
               /\ UNCHANGED input_json
          ELSE /\ Respond(400, <<"Invalid event structure">>)
               /\ UNCHANGED input_json
    /\ UNCHANGED <<source, pc, locals, result, returned, raised, ops, objects, errlog,
                   event, env, otherVars>>

\* str(e) of the exception e
StrOf(e) ==
    IF e.msg = "PII field not found in CSV headers"
    THEN <<"PII field '">> \o e.arg \o <<"' not found in CSV headers">>
    ELSE <<e.msg>>

NotFoundText == <<"S3 file not found">>

\* lines 99-135: the response for the outcome of obfuscate_pii
ResponseFor(ret, res, e) ==
    IF ret THEN [statusCode |-> 200, body |-> res]
    ELSE IF IsValueError(e)
    THEN IF Contains(StrOf(e), NotFoundText)
         THEN [statusCode |-> 404, body |-> <<"File not found">>]
         ELSE [statusCode |-> 400, body |-> StrOf(e)]
    ELSE [statusCode |-> 500, body |-> <<"Error processing file">>]

LambdaRespond ==
    /\ lpc = "call"
    /\ pc \in {"returned", "raised"}
    /\ response' = ResponseFor(returned, result, raised)
    /\ lpc' = "done"
    /\ UNCHANGED <<input_json, source, pc, locals, result, returned, raised, ops, objects,
                   errlog, event, env, otherVars>>

\* the events, environments and sources of the invocations of lambda_handler
LambdaEvents ==
    {NullEvent} \cup
    {Event(p, f, o, r) :
        p \in {Absent, Null, Str(A), List(<<>>), List(<<A>>), List(<<B, A>>),
               List(<<NotFoundText>>)},
        f \in {Absent, Number, Str(GoodSource),
               Str(S3Scheme \o <<"b", SLASH, DOT, DOT, SLASH, "k">>)},
        o \in {Absent, Str(<<>>), Str(GoodDest)},
        r \in {NoRecords, EmptyRecords, MalformedRecords, S3Records(<<"b">>, <<"k">>)}}

EnvValues == {Absent, Str(<<>>), Str(<<"a">>), Str(<<"b", COMMA, "a">>), Str(<<"c">>)}

LambdaSources ==
    {Missing, Denied, NotUtf8,
     Present(<<"a", COMMA, "b", LF, "b", COMMA, "a", LF>>),
     Present(<<"a", COMMA, "b", LF, "a", CR, "b", LF>>)}

InitLambda ==
    \E ev \in LambdaEvents, e \in EnvValues, src \in LambdaSources :
        /\ InitCall(NoInput, src)
        /\ event = ev
        /\ env = e
        /\ lpc = "build"
        /\ response = NoResponse
        /\ frame = NoFrame /\ cli = NoCli /\ pair = NoPair

Init ==
    \/ InitRequest \/ InitSource \/ InitDest \/ InitFields \/ InitPayload \/ InitPairs
    \/ InitLambda

Next ==
    \/ Validate \/ Fetch \/ ReadHeader \/ ProcessRow \/ Encode \/ WriteOutput
    \/ LambdaBuild \/ LambdaRespond

Spec == Init /\ [][Next]_vars

\* ------------------------------------------------------------------------
\* GDPRObfuscator.obfuscate_csv (src/src/obfuscator.py), over pandas
\* ------------------------------------------------------------------------
MaxFrameRows == 2    \* lines after the header in a generated csv_data

\* no call of obfuscate_pii and no invocation of lambda_handler is under way
IdleCall ==
    /\ InitCall(NoInput, Missing)
    /\ event = NoEvent /\ env = Absent /\ lpc = "idle" /\ response = NoResponse

Digits == {"0", "7"}
NotAvailable == <<"N", "A">>

\* the texts read_csv reads as a missing value (the empty field, 'NA')
NaValues == {<<>>, NotAvailable}
NaN == [t |-> "nan", v |-> <<>>]

IsIntText(t) == t # <<>> /\ \A i \in DOMAIN t : t[i] \in Digits

\* the decimal digits of int(t): leading zeros are dropped
RECURSIVE IntDigits(_)
IntDigits(t) == IF Len(t) > 1 /\ t[1] = "0" THEN IntDigits(Tail(t)) ELSE t

\* the dtype read_csv infers for a column from the texts of its fields
ColumnType(texts) ==
    LET given == {i \in DOMAIN texts : texts[i] \notin NaValues}
    IN IF given = {} THEN "float64"
       ELSE IF \A i \in given : IsIntText(texts[i])
       THEN IF given = DOMAIN texts THEN "int64" ELSE "float64"
       ELSE "object"

\* the value of a field of a column of that dtype
CellValue(dtype, t) ==
    IF t \in NaValues THEN NaN
    ELSE IF dtype = "object" THEN [t |-> "str", v |-> t]
    ELSE [t |-> dtype, v |-> IntDigits(t)]

\* the lines of the text that are not blank (skip_blank_lines)
TextLines(text) == SelectSeq(Split(text, LF), LAMBDA l : l # <<>>)

\* pd.read_csv(csv_data): the first line gives the column names, a short
\* line is filled with missing values, every column gets its dtype
read_csv(text) ==
    LET lines == TextLines(text)
        names == Split(lines[1], COMMA)
        texts == [r \in 1..(Len(lines) - 1) |->
                    LET fs == Split(lines[r + 1], COMMA)
                    IN [j \in DOMAIN names |-> IF j <= Len(fs) THEN fs[j] ELSE <<>>]]
        dtype == [j \in DOMAIN names |-> ColumnType([r \in DOMAIN texts |-> texts[r][j]])]
    IN [columns |-> names,
        rows |-> [r \in DOMAIN texts |->
                    [j \in DOMAIN names |-> CellValue(dtype[j], texts[r][j])]]]

\* the text to_csv writes for a value: nothing for a missing value
\* (na_rep ''), the digits of an integer, and those of a float with '.0'
CellText(c) ==
    IF c.t = "nan" THEN <<>>
    ELSE IF c.t = "float64" THEN c.v \o <<DOT, "0">>
    ELSE c.v

\* a line of to_csv: csv.writer with QUOTE_MINIMAL and the terminator '\n'
to_csv_line(fs) ==
    LET rec == JoinFields(fs)
    IN (IF Len(fs) > 0 /\ rec = <<>> THEN <<DQ, DQ>> ELSE rec) \o <<LF>>

\* df.to_csv(output, index=False)
to_csv(df) ==
    to_csv_line(df.columns)
    \o Flatten([r \in DOMAIN df.rows |->
                  to_csv_line([j \in DOMAIN df.columns |-> CellText(df.rows[r][j])])])

\* line 37: the names of pii_fields that are not columns, in order
InvalidFields(df, fields) == SelectSeq(fields, LAMBDA f : f \notin Range(df.columns))

\* lines 58-62: csv_data is None, or the text is read into df
ReadCsv ==
    /\ frame.pc = "read"
    /\ frame' =
         IF frame.csv_data.none
         THEN [frame EXCEPT !.pc = "done",
                            !.raised = Exc("ValueError", "CSV data cannot be None")]
         ELSE IF TextLines(frame.csv_data.text) = <<>>
         THEN [frame EXCEPT !.pc = "done",
                            !.raised = Exc("EmptyDataError", "No columns to parse from file")]
         ELSE [frame EXCEPT !.pc = "validate", !.df = read_csv(frame.csv_data.text)]
    /\ UNCHANGED <<input_json, source, pc, locals, result, returned, raised, ops, objects,
                   errlog, lambdaVars, cli, pair>>

\* line 65, validate_input (lines 34-39)
ValidateInput ==
    /\ frame.pc = "validate"
    /\ frame' =
         IF frame.df.rows = <<>>
         THEN [frame EXCEPT !.pc = "done",
                            !.raised = Exc("ValueError", "Input DataFrame is empty")]
         ELSE IF InvalidFields(frame.df, frame.pii_fields) # <<>>
         THEN [frame EXCEPT !.pc = "done",
                            !.raised = ExcArg("ValueError", "Invalid PII fields",
                                              InvalidFields(frame.df, frame.pii_fields))]
         ELSE [frame EXCEPT !.pc = "obfuscate"]
    /\ UNCHANGED <<input_json, source, pc, locals, result, returned, raised, ops, objects,
                   errlog, lambdaVars, cli, pair>>

\* lines 68-77: every listed column is set to obfuscation_char, and the
\* frame is written back as CSV
ObfuscateColumns ==
    /\ frame.pc = "obfuscate"
    /\ LET masked == [r \in DOMAIN frame.df.rows |->
                        [j \in DOMAIN frame.df.columns |->
                            IF frame.df.columns[j] \in Range(frame.pii_fields)
                            THEN [t |-> "str", v |-> SENTINEL]
                            ELSE frame.df.rows[r][j]]]
           df == [frame.df EXCEPT !.rows = masked]
       IN frame' = [frame EXCEPT !.pc = "done", !.df = df, !.out = to_csv(df)]
    /\ UNCHANGED <<input_json, source, pc, locals, result, returned, raised, ops, objects,
                   errlog, lambdaVars, cli, pair>>

\* the arguments of the calls of obfuscate_csv: tables without repeated
\* column names whose lines are not longer than the header
FrameCells == {<<"b">>, <<"0", "7">>, NotAvailable, <<>>}
FrameHeaders == {<<A, B>>, <<A>>}
FrameFields == {<<>>, <<A>>, <<B>>, <<A, B>>, <<C>>, <<C, A, D>>}

RECURSIVE JoinComma(_)
JoinComma(l) ==
    IF l = <<>> THEN <<>>
    ELSE IF Len(l) = 1 THEN l[1]
    ELSE l[1] \o <<COMMA>> \o JoinComma(Tail(l))

FrameLinesFor(h) == {JoinComma(fs) : fs \in UNION {[1..n -> FrameCells] : n \in 1..Len(h)}}

FrameTexts ==
    {<<>>} \cup
    UNION {{JoinLines(<<JoinComma(h)>> \o ls, <<LF>>, TRUE) :
              ls \in TextsUpTo(FrameLinesFor(h), MaxFrameRows)} : h \in FrameHeaders}

InitFrame ==
    /\ IdleCall
    /\ cli = NoCli /\ pair = NoPair
    /\ \E data \in {[none |-> TRUE, text |-> <<>>]}
                   \cup {[none |-> FALSE, text |-> t] : t \in FrameTexts},
          fields \in FrameFields :
         frame = [NoFrame EXCEPT !.pc = "read", !.csv_data = data, !.pii_fields = fields]

NextFrame == ReadCsv \/ ValidateInput \/ ObfuscateColumns

SpecFrame == InitFrame /\ [][NextFrame]_vars

\* ------------------------------------------------------------------------
\* process_local_file and process_s3_file (src/cli.py)
\* ------------------------------------------------------------------------
Written(t) == [written |-> TRUE, data |-> t]

\* what obfuscate_pii, or the double a test patches in its place, gives back
RespBytes(t)  == [kind |-> "bytes", valid |-> TRUE, text |-> t, value |-> NoValue]
RespRaise     == [kind |-> "raise", valid |-> FALSE, text |-> <<>>, value |-> NoValue]
RespOther     == [kind |-> "other", valid |-> FALSE, text |-> <<>>, value |-> NoValue]
RespDict(v)   == [kind |-> "dict", valid |-> TRUE, text |-> <<>>, value |-> v]
\* a str: json.dumps(v), or a text that is not JSON
RespStr(v)    == [kind |-> "str", valid |-> TRUE, text |-> <<>>, value |-> v]
RespNotJson   == [kind |-> "str", valid |-> FALSE, text |-> <<>>, value |-> NoValue]

\* JSON values: a response dict, a number, a string
JsonDict(code, body) == [kind |-> "dict", statusCode |-> code, body |-> body]
JsonNumber == [kind |-> "number", statusCode |-> 0, body |-> Absent]
JsonString == [kind |-> "string", statusCode |-> 0, body |-> Absent]

\* JSON white space around a document is skipped
RECURSIVE StripWs(_)
StripWs(t) ==
    IF t # <<>> /\ t[1] \in {CR, LF} THEN StripWs(Tail(t))
    ELSE IF t # <<>> /\ t[Len(t)] \in {CR, LF} THEN StripWs(SubSeq(t, 1, Len(t) - 1))
    ELSE t

\* json.loads on a text of the payload alphabet: a number is a JSON
\* document, and so is one quoted string without a quote or a control
\* character inside; every other text raises JSONDecodeError
json_loads(text) ==
    LET t == StripWs(text)
    IN IF t # <<>> /\ (\A i \in DOMAIN t : t[i] \in Digits) /\ (Len(t) = 1 \/ t[1] # "0")
       THEN [valid |-> TRUE, value |-> JsonNumber]
       ELSE IF /\ Len(t) >= 2 /\ t[1] = DQ /\ t[Len(t)] = DQ
               /\ \A i \in 2..(Len(t) - 1) : t[i] \notin {DQ, CR, LF}
       THEN [valid |-> TRUE, value |-> JsonString]
       ELSE [valid |-> FALSE, value |-> NoValue]

Outcome(e, so, f, up) == [exit |-> e, stdout |-> so, outfile |-> f, uploaded |-> up]
Exit1 == Outcome("1", NotWritten, NotWritten, {})

\* lines 118-135 and 163-180: the upload to an S3 output path
Upload(path, data, upload) ==
    LET t == AfterScheme(path)
    IN IF ~HasSlash(t) THEN Exit1
       ELSE IF upload = "raises" \/ ParamInvalid(SplitBucket(t), SplitKey(t)) THEN Exit1
       ELSE Outcome("0", NotWritten, NotWritten, {PutOp(SplitBucket(t), SplitKey(t), data)})

\* lines 54-60 and 117-143: bytes that are not JSON are the output
WriteBytes(fn, data, out, upload) ==
    IF ~Truthy(out) THEN Outcome("0", Written(data), NotWritten, {})
    ELSE IF fn = "s3" /\ StartsWith(out.s, S3Scheme) THEN Upload(out.s, data, upload)
    ELSE Outcome("0", NotWritten, Written(data), {})

\* a test that lets every response with a status through
StatusOk_Present(d) == d.statusCode # 0

\* lines 68 and 151: result_dict.get('statusCode') != 200
StatusOk(d) == d.statusCode = 200

\* lines 73-82 and 156-189: the body of a response dict is the output
WriteBody(fn, d, out, upload) ==
    LET body == IF d.body.present THEN d.body ELSE Str(<<>>)
    IN IF fn = "s3" /\ ~Truthy(body) THEN Exit1
       ELSE IF ~Truthy(out)
       THEN IF body.type = "str" THEN Outcome("0", Written(body.s), NotWritten, {})
            ELSE Exit1
       ELSE IF fn = "s3" /\ StartsWith(out.s, S3Scheme)
       THEN Upload(out.s, body.s, upload)
       ELSE IF body.type = "str" THEN Outcome("0", NotWritten, Written(body.s), {})
            ELSE Outcome("1", NotWritten, Written(<<>>), {})

\* lines 41-82 and 104-189, with the handlers of lines 84-90 and 191-193
HandleResponse(fn, resp, out, upload) ==
    IF resp.kind \in {"raise", "other"} \/ (resp.kind = "str" /\ ~resp.valid) THEN Exit1
    ELSE IF resp.kind = "bytes" /\ ~json_loads(resp.text).valid
    THEN WriteBytes(fn, resp.text, out, upload)
    ELSE LET d == IF resp.kind = "bytes" THEN json_loads(resp.text).value ELSE resp.value
         IN IF d.kind # "dict" THEN Exit1
            ELSE IF ~StatusOk(d) THEN Exit1
            ELSE WriteBody(fn, d, out, upload)

\* the location process_local_file uploads the file to
LocalBucket == <<"b">>
LocalKey == <<"input", SLASH, "k">>

\* lines 20-36 and 95-99: the input file is read and put in the mocked
\* store, input_json is built; a missing file ends the run with status 1
CliStart ==
    /\ cli.pc = "start"
    /\ IF cli.fn = "local" /\ cli.file.status = "missing"
       THEN /\ cli' = [cli EXCEPT !.pc = "done", !.exit = "1"]
            /\ UNCHANGED <<input_json, source>>
       ELSE /\ cli' = [cli EXCEPT !.pc = IF cli.stub = NoStub THEN "call" ELSE "patched"]
            /\ source' = IF cli.fn = "local" THEN cli.file ELSE source
            /\ input_json' =
                 Object(Str(IF cli.fn = "local"
                            THEN S3Scheme \o LocalBucket \o <<SLASH>> \o LocalKey
                            ELSE cli.s3_path),
                        List(cli.pii_fields), Absent)
    /\ UNCHANGED <<pc, locals, result, returned, raised, ops, objects, errlog, lambdaVars,
                   frame, pair>>

\* lines 39-90 and 102-193: the result of obfuscate_pii, or of its double,
\* is routed to the output, and the run returns or exits with status 1
CliHandle ==
    /\ \/ cli.pc = "patched"
       \/ cli.pc = "call" /\ pc \in {"returned", "raised"}
    /\ LET resp == IF cli.pc = "patched" THEN cli.stub
                   ELSE IF returned THEN RespBytes(result) ELSE RespRaise
           o == HandleResponse(cli.fn, resp, cli.output_file, cli.upload)
       IN cli' = [cli EXCEPT !.pc = "done", !.exit = o.exit, !.stdout = o.stdout,
                             !.outfile = o.outfile, !.uploaded = o.uploaded]
    /\ UNCHANGED <<input_json, source, pc, locals, result, returned, raised, ops, objects,
                   errlog, lambdaVars, frame, pair>>

\* the runs of the command line: input files and source objects, field
\* lists, outputs, and the doubles of obfuscate_pii the tests use
QuotedHeader == <<DQ, "a", COMMA, "b", DQ, LF>>
CliPayloads == {<<"a", COMMA, "b", LF, "b", COMMA, "a", LF>>, <<"a", LF>>, QuotedHeader,
                <<"7", LF>>, <<"0", "7", LF>>}
CliFiles == {Missing, NotUtf8} \cup {Present(t) : t \in CliPayloads}
CliFields == {<<A>>, <<AB>>, <<<<"7">>>>}
LocalOut == <<"o", DOT, "c", "s", "v">>
CliOutputs == {Absent, Str(<<>>), Str(LocalOut), Str(GoodDest), Str(S3Scheme \o <<"b">>),
               Str(S3Scheme \o <<"b", SLASH>>)}
MaskedText == <<"a", COMMA, "b", LF, "*", "*", "*", COMMA, "a", LF>>
CliStubs == {NoStub, RespNotJson, RespOther, RespStr(JsonNumber),
             RespStr(JsonDict(200, Str(MaskedText))), RespDict(JsonDict(200, Str(MaskedText))),
             RespStr(JsonDict(400, Str(<<"Invalid input format">>))),
             RespStr(JsonDict(404, Str(MaskedText))),
             RespStr(JsonDict(0, Str(MaskedText))),
             RespStr(JsonDict(200, Absent)), RespStr(JsonDict(200, Null)),
             RespStr(JsonDict(200, Str(<<>>)))}

InitCli ==
    /\ event = NoEvent /\ env = Absent /\ lpc = "none" /\ response = NoResponse
    /\ frame = NoFrame /\ pair = NoPair
    /\ \E fn \in {"local", "s3"}, f \in CliFiles, fields \in CliFields, out \in CliOutputs,
          up \in {"ok", "raises"}, stub \in CliStubs :
         /\ InitCall(NoInput, IF fn = "local" THEN Missing ELSE f)
         /\ cli = [NoCli EXCEPT !.pc = "start", !.fn = fn,
                                !.file = IF fn = "local" THEN f ELSE Missing,
                                !.s3_path = IF fn = "s3" THEN GoodSource ELSE <<>>,
                                !.pii_fields = fields, !.output_file = out,
                                !.upload = up, !.stub = stub]

NextCli ==
    \/ CliStart \/ CliHandle
    \/ Validate \/ Fetch \/ ReadHeader \/ ProcessRow \/ Encode \/ WriteOutput

SpecCli == InitCli /\ [][NextCli]_vars

\* ------------------------------------------------------------------------
\* Two calls of obfuscate_pii on one store, their steps interleaved
\* ------------------------------------------------------------------------
\* the keys of the objects of bucket b, and the absence of an object
Keys == {"x", "y", "z"}
NoObject == <<"NoSuchKey">>
NoDest == "none"
PathOf(k) == S3Scheme \o <<"b", SLASH, k>>

\* input_json of a call that reads key src and writes key dest
PairRequest(src, dest, fields) ==
    [src |-> src, dest |-> dest, fields |-> fields,
     json |-> Object(Str(PathOf(src)), List(fields),
                     IF dest = NoDest THEN Absent ELSE Str(PathOf(dest)))]

\* a call before its first step; put is the answer of the store to its Put
PairCall(req, put) ==
    [req |-> req, put |-> put, pc |-> "validate", csv_content |-> <<>>,
     result |-> <<>>, returned |-> FALSE, raised |-> NoError]

\* a call that keeps the source of the first call in a buffer of the module
SourceOf_Cached(c) == pair.calls[1].req.src

\* the key call c reads: that of its own request
SourceOf(c) == pair.calls[c].req.src

SetCall(c, call) == pair' = [pair EXCEPT !.calls[c] = call]

\* lines 33-64 for call c
PairValidate(c) ==
    /\ c \in DOMAIN pair.calls
    /\ pair.calls[c].pc = "validate"
    /\ LET call == pair.calls[c]
           e == ValidateError(call.req.json)
       IN SetCall(c, IF e # NoError THEN [call EXCEPT !.pc = "raised", !.raised = e]
                     ELSE [call EXCEPT !.pc = "fetch"])
    /\ UNCHANGED <<input_json, source, pc, locals, result, returned, raised, ops, objects,
                   errlog, lambdaVars, frame, cli>>

\* lines 67-77 for call c: the object is read as the store holds it now
PairGet(c) ==
    /\ c \in DOMAIN pair.calls
    /\ pair.calls[c].pc = "fetch"
    /\ LET call == pair.calls[c]
           body == pair.store[SourceOf(c)]
       IN SetCall(c, IF body = NoObject
                     THEN [call EXCEPT !.pc = "raised",
                                       !.raised = Exc("ValueError", "S3 file not found")]
                     ELSE [call EXCEPT !.pc = "transform", !.csv_content = body])
    /\ UNCHANGED <<input_json, source, pc, locals, result, returned, raised, ops, objects,
                   errlog, lambdaVars, frame, cli>>

\* lines 79-111 for call c
PairTransform(c) ==
    /\ c \in DOMAIN pair.calls
    /\ pair.calls[c].pc = "transform"
    /\ LET call == pair.calls[c]
           o == ObfuscateText(call.req.fields, call.csv_content)
       IN SetCall(c, IF o.ok THEN [call EXCEPT !.pc = "write", !.result = o.out]
                     ELSE [call EXCEPT !.pc = "raised",
                                       !.raised = Exc("ValueError", "transform failed")])
    /\ UNCHANGED <<input_json, source, pc, locals, result, returned, raised, ops, objects,
                   errlog, lambdaVars, frame, cli>>

\* lines 114-128 for call c: the Put, whose failure is swallowed, and the
\* return of the payload
PairPut(c) ==
    /\ c \in DOMAIN pair.calls
    /\ pair.calls[c].pc = "write"
    /\ LET call == pair.calls[c]
           stored == call.req.dest # NoDest /\ call.put = "ok"
       IN pair' = [pair EXCEPT
                     !.calls[c] = [call EXCEPT !.pc = "returned", !.returned = TRUE],
                     !.store = IF stored THEN [@ EXCEPT ![call.req.dest] = call.result]
                               ELSE @]
    /\ UNCHANGED <<input_json, source, pc, locals, result, returned, raised, ops, objects,
                   errlog, lambdaVars, frame, cli>>

\* stores and pairs of requests
PayloadX == <<"a", COMMA, "b", LF, "b", COMMA, "a", LF>>
PayloadY == <<"a", COMMA, "b", LF, "a", COMMA, "b", LF, "a", LF>>
PairStores ==
    {[k \in Keys |-> IF k = "x" THEN x ELSE IF k = "y" THEN y ELSE NoObject] :
        x \in {PayloadX, PayloadY}, y \in {NoObject, PayloadY}}
PairRequests ==
    {PairRequest(src, dest, fields) :
        src \in Keys, dest \in Keys \cup {NoDest}, fields \in {<<A>>, <<B>>}}

InitPair ==
    /\ IdleCall
    /\ frame = NoFrame /\ cli = NoCli
    /\ \E st \in PairStores, r1 \in PairRequests, r2 \in PairRequests,
          p1 \in {"ok", "ClientError"}, p2 \in {"ok", "ClientError"} :
         /\ r1.fields = <<A>>
         /\ pair = [store0 |-> st, store |-> st,
                    calls |-> <<PairCall(r1, p1), PairCall(r2, p2)>>]

NextPair ==
    \E c \in {1, 2} : PairValidate(c) \/ PairGet(c) \/ PairTransform(c) \/ PairPut(c)

SpecPair == InitPair /\ [][NextPair]_vars

\* ------------------------------------------------------------------------
\* Properties
\* ------------------------------------------------------------------------
\* the records of the payload as fetched and of the payload as returned
InRecs  == csv_reader(csv_content)
OutRecs == csv_reader(result)
InHeader == InRecs.rows[1]
\* the data records of the input: the records after the header that hold
\* at least one field (an empty line is no record)
InData  == SelectSeq(Tail(InRecs.rows), LAMBDA r : Len(r) > 0)
OutData == Tail(OutRecs.rows)

\* the request is an object whose keys have the types the code expects
WellTyped ==
    /\ input_json.shape = "object"
    /\ input_json.file_to_obfuscate.present /\ input_json.file_to_obfuscate.type = "str"
    /\ input_json.pii_fields.present /\ input_json.pii_fields.type = "list"

HasScheme(t) ==
    Len(t) >= 5 /\ t[1] = "s" /\ t[2] = "3" /\ t[3] = ":" /\ t[4] = SLASH /\ t[5] = SLASH

\* the key of a path with the scheme: what follows the first '/' after it
HasKey(t) == HasScheme(t) /\ \E i \in 6..Len(t) : t[i] = SLASH
KeyOf(t) ==
    LET i == CHOOSE i \in 6..Len(t) : t[i] = SLASH /\ \A j \in 6..(i - 1) : t[j] # SLASH
    IN [j \in 1..(Len(t) - i) |-> t[i + j]]

\* k has a segment '..' between separators or the ends of k
HasParentSegment(k) ==
    \E i \in 1..(Len(k) - 1) :
        /\ k[i] = DOT /\ k[i + 1] = DOT
        /\ (i = 1 \/ k[i - 1] = SLASH)
        /\ (i + 1 = Len(k) \/ k[i + 2] = SLASH)

Unsafe(k) == HasParentSegment(k) \/ (Len(k) > 0 /\ k[1] = SLASH)

NoStoreAccess == ops = <<>> /\ objects = {}

RejectedEarly == pc = "raised" /\ raised.type = "ValueError" /\ NoStoreAccess /\ ~returned

\* C1: when the call returns, every data record of the output holds '***'
\* in every column whose header name is in pii_fields, and an input without
\* data records gives the header row alone.
C1_TargetsMasked ==
    returned =>
        LET out == OutRecs
            outData == Tail(out.rows)
            header == InHeader
            targets == {j \in DOMAIN header : header[j] \in Range(pii_fields)}
        IN /\ ~out.err
           /\ \A r \in DOMAIN outData : \A j \in targets :
                 j <= Len(outData[r]) /\ outData[r][j] = SENTINEL
           /\ InData = <<>> => out.rows = <<header>>

C1_Witness ==
    /\ returned
    /\ Len(InData) = 2 /\ Len(OutData) = 2
    /\ Len(pii_fields) = 2
    /\ \E j \in DOMAIN InHeader : InHeader[j] \in Range(pii_fields) /\ InData[1][j] # SENTINEL

\* C2: when the call returns (pii_fields not empty), every value of an
\* input record in a column whose header name is not in pii_fields is the
\* value of the same column of the same record of the output.
C2_OthersKept ==
    (returned /\ pii_fields # <<>>) =>
        LET outData == OutData
            inData == InData
            header == InHeader
            others == {j \in DOMAIN header : header[j] \notin Range(pii_fields)}
        IN /\ Len(outData) = Len(inData)
           /\ \A r \in DOMAIN inData : \A j \in others :
                 j <= Len(inData[r]) =>
                     (j <= Len(outData[r]) /\ outData[r][j] = inData[r][j])

\* C3: when the call returns, the header row of the output is the header
\* row of the input: the same names, as many, in the same order.
C3_HeaderKept ==
    returned => LET out == OutRecs IN out.rows # <<>> /\ out.rows[1] = InHeader

C3_Witness ==
    /\ returned
    /\ InHeader = <<AB, B>>
    /\ pii_fields = <<AB>>
    /\ InData # <<>>

\* C4: when the call returns, the output has one data record per data
\* record of the input, and the i-th is the masked image of the i-th.
C4_RowsKept ==
    returned =>
        LET outData == OutData
            inData == InData
            header == InHeader
        IN /\ Len(outData) = Len(inData)
           /\ row_count = Len(inData)
           /\ \A r \in DOMAIN inData :
                 LET d == MaskRow(RowDict(header, inData[r]), pii_fields)
                 IN outData[r] = [j \in DOMAIN header |-> FieldText(d[header[j]])]

C4_Witness ==
    /\ returned
    /\ Len(InData) = 2
    /\ InData[1] # InData[2]
    /\ OutData[1] # OutData[2]
    /\ \E j \in DOMAIN InData[1] : LF \in Range(InData[1][j])

\* the payload has been fetched and its first record holds a name
HeaderRead == InRecs.rows # <<>> /\ InRecs.rows[1] # <<>>

\* C5: once the header is read, a pii_fields list with a name that is not
\* in the header has made the call fail with the unknown-field error for
\* the first such name, before any data record is read or written; nothing
\* is returned and nothing is put in the store.
C5_UnknownField ==
    (pc \notin {"validate", "fetch", "header"} /\ pii_fields # <<>> /\ HeaderRead) =>
        LET names == Range(InHeader)
        IN \A i \in DOMAIN pii_fields :
              (pii_fields[i] \notin names /\ \A j \in 1..(i - 1) : pii_fields[j] \in names)
              => /\ pc = "raised"
                 /\ raised = [type |-> "ValueError",
                              msg |-> "PII field not found in CSV headers",
                              arg |-> pii_fields[i]]
                 /\ row_count = 0 /\ output = <<>> /\ reader.rows = <<>>
                 /\ ~returned /\ result = <<>>
                 /\ objects = {}
                 /\ \A n \in DOMAIN ops : ops[n].op # "Put"

C5_Witness ==
    /\ pc = "raised"
    /\ HeaderRead
    /\ InData # <<>>
    /\ Len(pii_fields) = 2
    /\ pii_fields[1] \notin Range(InHeader)
    /\ pii_fields[2] \notin Range(InHeader)
    /\ pii_fields[1] # pii_fields[2]
    /\ output_location = Str(GoodDest)

\* the source path of a request with the expected types
SourcePath == input_json.file_to_obfuscate.s

\* C6: a source path whose key holds a '..' segment or starts with '/' is
\* rejected with ValueError, and no call is ever made on the store.
C6_SourceTraversal ==
    (WellTyped /\ HasKey(SourcePath) /\ Unsafe(KeyOf(SourcePath)))
        => (pc = "validate" \/ RejectedEarly)

C6_Witness ==
    /\ WellTyped /\ HasKey(SourcePath)
    /\ KeyOf(SourcePath) = <<SLASH, "b">>
    /\ source.status = "present"
    /\ RejectedEarly
    /\ raised.msg = "Invalid S3 key: potential path traversal detected"

C6_WitnessParent ==
    /\ WellTyped /\ HasKey(SourcePath)
    /\ KeyOf(SourcePath) = <<"b", SLASH, DOT, DOT>>
    /\ source.status = "present"
    /\ RejectedEarly

\* the destination path of a request that names one
DestPath == input_json.output_location.s
HasDest == input_json.shape = "object" /\ input_json.output_location.type = "str"

\* C7: when the key of output_location holds a '..' segment or starts with
\* '/', no call is ever made on the store: no Get, no Put.
C7_DestTraversal ==
    (HasDest /\ HasKey(DestPath) /\ Unsafe(KeyOf(DestPath))) => NoStoreAccess

\* C8: a request that is not JSON, or an object without file_to_obfuscate
\* or without pii_fields, or whose pii_fields is not a list, or whose source
\* string does not start with 's3://', is rejected with ValueError and no
\* call is ever made on the store.
Malformed ==
    \/ input_json.shape = "invalid"
    \/ /\ input_json.shape = "object"
       /\ \/ ~input_json.file_to_obfuscate.present
          \/ ~input_json.pii_fields.present
          \/ input_json.pii_fields.type # "list"
          \/ input_json.file_to_obfuscate.type = "str" /\ ~HasScheme(SourcePath)

C8_MalformedRejected == Malformed => (pc = "validate" \/ RejectedEarly)

C8_Witness ==
    /\ WellTyped
    /\ SourcePath = <<"s", "3", ":", SLASH, "b", SLASH, "k">>
    /\ source.status = "present"
    /\ RejectedEarly /\ raised.msg = "Invalid S3 path"

C8_WitnessNotList ==
    /\ input_json.shape = "object"
    /\ input_json.pii_fields = Str(A)
    /\ input_json.file_to_obfuscate = Number
    /\ RejectedEarly /\ raised.msg = "pii_fields must be a list"

\* C9: a request whose pii_fields is the empty list is rejected with
\* ValueError: the source is never fetched and no payload is returned.
C9_EmptyListRejected ==
    (WellTyped /\ input_json.pii_fields.list = <<>>)
        => (pc = "validate" \/ RejectedEarly)

\* C10: a source path with the scheme and a bucket but an empty key is
\* rejected with ValueError before any call is made on the store.
C10_EmptyKeyRejected ==
    (WellTyped /\ HasKey(SourcePath) /\ KeyOf(SourcePath) = <<>>)
        => (pc = "validate" \/ RejectedEarly)

\* the Get of the source was answered with bytes that decode as UTF-8
Fetched ==
    /\ ops # <<>>
    /\ ops[1].op = "Get" /\ ops[1].bucket # <<>> /\ ops[1].key # <<>>
    /\ source.status = "present" /\ source.utf8

NoPut == \A n \in DOMAIN ops : ops[n].op # "Put"

\* C11: once the header step is over, a payload of length zero, or one
\* whose first record cannot be read or holds no name, has made the call
\* fail with 'CSV file has no headers'; nothing is returned or written.
C11_NoHeaders ==
    (Fetched /\ pii_fields # <<>> /\ pc # "header") =>
        LET recs == csv_reader(source.text)
        IN (recs.rows = <<>> \/ recs.rows[1] = <<>>)
           => /\ pc = "raised"
              /\ raised = [type |-> "ValueError", msg |-> "CSV file has no headers",
                           arg |-> <<>>]
              /\ ~returned /\ objects = {} /\ NoPut

\* C12: bytes that are not UTF-8 end the call in UnicodeDecodeError, a
\* ValueError, raised to the caller: nothing is returned, nothing is put,
\* and lambda_handler answers it with status 400.
C12_EncodingError ==
    (/\ ops # <<>>
     /\ ops[1].bucket # <<>> /\ ops[1].key # <<>>
     /\ source.status = "present" /\ ~source.utf8)
    => /\ pc = "raised"
       /\ raised.type = "UnicodeDecodeError"
       /\ raised.type \in {"ValueError", "UnicodeDecodeError"}
       /\ ~returned /\ result = <<>>
       /\ objects = {} /\ NoPut
       /\ lpc = "done" => response.statusCode = 400

C12_Witness ==
    /\ ~source.utf8
    /\ pc = "raised" /\ raised.type = "UnicodeDecodeError"
    /\ Len(ops) = 1
    /\ input_json.output_location = Str(GoodDest)
    /\ lpc = "done"

\* the put of the call was refused by the store with a client error
PutFailed ==
    /\ Len(ops) = 2
    /\ ops[2].op = "Put" /\ ops[2].bucket # <<>> /\ ops[2].key # <<>>
    /\ ops[2] \notin objects

\* C13: when the put to output_location fails with a client error the call
\* still returns the complete masked payload, the failure being logged; no
\* other logged failure lets the call return.
C13_PutFailureSwallowed ==
    /\ PutFailed =>
          /\ pc = "returned" /\ returned /\ raised = NoError
          /\ result = output /\ result = ops[2].body
          /\ reader.rows = <<>> /\ row_count = Len(InData)
          /\ errlog = <<"Failed to write to S3">>
    /\ (returned /\ errlog # <<>>) => PutFailed

C13_Witness ==
    /\ PutFailed
    /\ returned
    /\ Len(InData) = 1
    /\ pii_fields = <<A>>
    /\ result = <<"a", COMMA, "b", CR, LF, "*", "*", "*", COMMA, "a", CR, LF>>

\* the bucket of a path with the scheme: what precedes the first '/' after it
BucketOf(t) ==
    LET i == CHOOSE i \in 6..Len(t) : t[i] = SLASH /\ \A j \in 6..(i - 1) : t[j] # SLASH
    IN [j \in 1..(i - 6) |-> t[5 + j]]

\* C14: when the call returns and its put succeeded, the store holds, at
\* the bucket and key of output_location, an object of content type
\* text/csv whose body is the returned payload, and no other object.
C14_StoredObject ==
    (pc = "returned" /\ objects # {}) =>
        /\ HasDest /\ HasKey(DestPath)
        /\ objects = {[op |-> "Put", bucket |-> BucketOf(DestPath), key |-> KeyOf(DestPath),
                       body |-> result, contentType |-> "text/csv"]}

C14_Witness ==
    /\ pc = "returned"
    /\ DestPath = S3Scheme \o <<"b", SLASH, "b", SLASH, "b">>
    /\ \E o \in objects : o.key = <<"b", SLASH, "b">> /\ o.body = result /\ Len(result) > 5

\* C15: the calls on the store are a prefix of <<Get of the source, Put to
\* output_location>>; only the object named by output_location is written,
\* and without output_location there is no Put and the store is unchanged.
C15_StoreOps ==
    /\ Len(ops) <= 2
    /\ ops # <<>> =>
          /\ WellTyped /\ HasKey(SourcePath)
          /\ ops[1] = [op |-> "Get", bucket |-> BucketOf(SourcePath),
                       key |-> KeyOf(SourcePath), body |-> <<>>, contentType |-> ""]
    /\ Len(ops) = 2 =>
          /\ HasDest /\ HasKey(DestPath)
          /\ ops[2].op = "Put"
          /\ ops[2].bucket = BucketOf(DestPath) /\ ops[2].key = KeyOf(DestPath)
    /\ objects \subseteq {ops[n] : n \in {2} \cap DOMAIN ops}
    /\ (input_json.shape = "object" /\ ~input_json.output_location.present)
          => (NoPut /\ objects = {})

C15_Witness ==
    /\ pc = "returned"
    /\ Len(ops) = 2
    /\ ops[1].key = <<"b", SLASH, "b">>
    /\ ops[2].key = <<"o">>
    /\ objects # {}

C15_WitnessNoDest ==
    /\ pc = "returned"
    /\ ~input_json.output_location.present
    /\ Len(ops) = 1 /\ Len(InData) = 2

\* a put_object request that passed the client's parameter validation
PutIssued ==
    \E n \in DOMAIN ops : ops[n].op = "Put" /\ ~ParamInvalid(ops[n].bucket, ops[n].key)

\* C16: a call that ends in an error returns no payload, has issued no Put
\* and leaves no object; a Put is issued only when every record is masked
\* and written, with the whole payload as its body.
C16_NoPartialOutput ==
    /\ pc = "raised" => (~returned /\ ~PutIssued /\ objects = {})
    /\ returned => raised = NoError
    /\ ~NoPut =>
          /\ reader.rows = <<>> /\ ~reader.err
          /\ row_count = Len(InData)
          /\ result = output /\ result # <<>>
          /\ \A n \in DOMAIN ops : ops[n].op = "Put" => ops[n].body = result

C16_Witness ==
    /\ pc = "raised"
    /\ raised.msg = "dict contains fields not in fieldnames"
    /\ pii_fields = <<A>>
    /\ output # <<>> /\ result = <<>>
    /\ output_location = Str(GoodDest)
    /\ NoPut

\* C17: every exception that leaves obfuscate_pii is a ValueError.
C17_OnlyValueError ==
    pc = "raised" => raised.type \in {"ValueError", "UnicodeDecodeError"}

\* lambda_handler has invoked obfuscate_pii
Called == lpc \in {"call", "done"} /\ input_json # NoInput

\* the event carries a usable field list, or the environment does
EventFieldsBad ==
    event.pii_fields.present /\ (event.pii_fields.type # "list" \/ event.pii_fields.list = <<>>)
EnvFieldsMissing == ~event.pii_fields.present /\ (~env.present \/ env.s = <<>>)
NoObjectNamed ==
    ~event.file_to_obfuscate.present /\ event.Records.kind \in {"absent", "empty"}

\* the request cannot be built from the event
Unbuildable ==
    event.shape = "object" /\ (EventFieldsBad \/ EnvFieldsMissing \/ NoObjectNamed)

\* C18: the status of every response of lambda_handler is 200, 400, 404 or
\* 500: 200 with the masked payload when obfuscate_pii returns, 404 when
\* the source is missing, 400 when the request cannot be built or
\* obfuscate_pii raises another ValueError, 500 for every other failure.
C18_StatusCodes ==
    lpc = "done" =>
        /\ response.statusCode \in {200, 400, 404, 500}
        /\ (Called /\ returned) => (response.statusCode = 200 /\ response.body = result)
        /\ (Called /\ pc = "raised" /\ raised.msg = "S3 file not found")
              => response.statusCode = 404
        /\ (Called /\ pc = "raised" /\ raised.msg # "S3 file not found"
                   /\ raised.type \in {"ValueError", "UnicodeDecodeError"})
              => response.statusCode = 400
        /\ (Called /\ pc = "raised"
                   /\ raised.type \notin {"ValueError", "UnicodeDecodeError"})
              => response.statusCode = 500
        /\ (~Called /\ Unbuildable) => response.statusCode = 400
        /\ (~Called /\ ~Unbuildable) => response.statusCode = 500

\* C19: the field list given to obfuscate_pii is the event's pii_fields
\* when the event has that key, and the comma-separated PII_FIELDS only
\* when it has not; a column named in the environment alone stays unmasked.
C19_EventOverridesEnv ==
    Called =>
        LET given == input_json.pii_fields
        IN /\ given.type = "list"
           /\ event.pii_fields.present => given.list = event.pii_fields.list
           /\ ~event.pii_fields.present =>
                 /\ env.present
                 /\ JoinComma(given.list) = env.s
                 /\ \A i \in DOMAIN given.list : COMMA \notin Range(given.list[i])
           /\ (returned /\ event.pii_fields.present) =>
                 \A j \in DOMAIN InHeader :
                     (InHeader[j] \notin Range(event.pii_fields.list))
                         => \A r \in DOMAIN InData : OutData[r][j] = InData[r][j]

C19_Witness ==
    /\ lpc = "done" /\ returned
    /\ event.pii_fields = List(<<A>>)
    /\ env = Str(<<"b", COMMA, "a">>)
    /\ result = <<"a", COMMA, "b", CR, LF, "*", "*", "*", COMMA, "a", CR, LF>>

C19_WitnessEnv ==
    /\ lpc = "done" /\ returned
    /\ ~event.pii_fields.present
    /\ env = Str(<<"b", COMMA, "a">>)
    /\ pii_fields = <<B, A>>

\* C20: when the event's pii_fields is not a non-empty list, or is absent
\* with PII_FIELDS unset or empty, or the event names no object, the
\* response is 400 and obfuscate_pii is never invoked: no call on the store.
C20_BadRequest ==
    Unbuildable =>
        \/ lpc = "build"
        \/ /\ lpc = "done"
           /\ response.statusCode = 400
           /\ ~Called /\ pc = "validate" /\ NoStoreAccess
           /\ (~EventFieldsBad /\ ~EnvFieldsMissing)
                 => response.body = <<"Invalid event structure">>

C20_Witness ==
    /\ lpc = "done"
    /\ event.pii_fields = List(<<>>)
    /\ event.file_to_obfuscate = Str(GoodSource)
    /\ source.status = "present"
    /\ response.statusCode = 400

C20_WitnessStructure ==
    /\ lpc = "done"
    /\ ~event.pii_fields.present /\ env = Str(<<"a">>)
    /\ event.Records = EmptyRecords
    /\ response = [statusCode |-> 400, body |-> <<"Invalid event structure">>]

\* two dots in a row anywhere in k
HasDotDot(k) == \E i \in 1..(Len(k) - 1) : k[i] = DOT /\ k[i + 1] = DOT

\* the call was refused by the traversal guard
TraversalRejected ==
    /\ pc = "raised"
    /\ raised = [type |-> "ValueError", arg |-> <<>>,
                 msg |-> "Invalid S3 key: potential path traversal detected"]
    /\ NoStoreAccess /\ ~returned

\* C25: once validation is over, a well-formed source path is refused by the
\* traversal guard exactly when its key holds '..' anywhere or starts with
\* '/'; every other key is the key of the Get the call goes on to make.
C25_KeyGuard ==
    (WellTyped /\ HasKey(SourcePath) /\ pc # "validate") =>
        LET k == KeyOf(SourcePath)
        IN /\ TraversalRejected <=> (HasDotDot(k) \/ (Len(k) > 0 /\ k[1] = SLASH))
           /\ ~TraversalRejected =>
                 \/ pc = "fetch" /\ key = k /\ raised = NoError
                 \/ ops # <<>> /\ ops[1].op = "Get" /\ ops[1].key = k

C25_Witness ==
    /\ WellTyped /\ HasKey(SourcePath)
    /\ KeyOf(SourcePath) = <<"b", DOT, DOT, "b">>
    /\ source.status = "present"
    /\ TraversalRejected

C25_WitnessProceeds ==
    /\ WellTyped /\ HasKey(SourcePath)
    /\ KeyOf(SourcePath) = <<DOT, "b", DOT>>
    /\ returned /\ Len(ops) = 1

\* some data record of the input has more fields than the header
LongRecord == \E r \in DOMAIN InData : Len(InData[r]) > Len(InHeader)

\* C26: every data record of a returned payload has as many fields as the
\* header; a field the input record lacks is empty, or '***' in a target
\* column; a call on an input with a longer record never encodes or returns
\* a payload: it ends in an error with nothing returned and nothing put.
C26_FieldCount ==
    /\ returned =>
          LET header == InHeader
              inData == InData
              outData == OutData
          IN /\ Len(outData) = Len(inData)
             /\ \A r \in DOMAIN outData : Len(outData[r]) = Len(header)
             /\ \A r \in DOMAIN inData : Len(inData[r]) <= Len(header)
             /\ \A r \in DOMAIN inData : \A j \in (Len(inData[r]) + 1)..Len(header) :
                   outData[r][j] = IF header[j] \in Range(pii_fields) THEN SENTINEL ELSE <<>>
    /\ (pc \in {"write", "returned", "raised"} /\ Fetched /\ HeaderRead) =>
          (LongRecord =>
              /\ pc = "raised" /\ ~returned /\ result = <<>>
              /\ NoPut /\ objects = {})

C26_Witness ==
    /\ returned
    /\ InHeader = <<A, B>>
    /\ pii_fields = <<B>>
    /\ InData = <<<<A>>>>
    /\ OutData = <<<<A, SENTINEL>>>>

C26_WitnessLong ==
    /\ pc = "raised"
    /\ raised.msg = "dict contains fields not in fieldnames"
    /\ InHeader = <<A>>
    /\ InData = <<<<A>>, <<B, A>>>>
    /\ row_count = 1

\* C27: lambda_handler answers 404 only when the store reported the source
\* object as missing; every other ValueError of obfuscate_pii is answered
\* 400, whatever text it carries.
C27_NotFoundOnly ==
    lpc = "done" =>
        /\ response.statusCode = 404 =>
              (Called /\ source.status = "missing" /\ raised.msg = "S3 file not found")
        /\ (Called /\ pc = "raised" /\ raised.type = "ValueError"
                   /\ raised.msg # "S3 file not found") => response.statusCode = 400

\* output_location is absent, empty, without the scheme, or has the scheme
\* and no key after the bucket
NoUsableDest ==
    /\ input_json.shape = "object"
    /\ \/ ~input_json.output_location.present
       \/ /\ input_json.output_location.type = "str"
          /\ \/ DestPath = <<>>
             \/ ~HasScheme(DestPath)
             \/ ~HasKey(DestPath)
             \/ KeyOf(DestPath) = <<>>

\* C30: once the masked payload is encoded, the call returns it whatever
\* output_location is: an absent, empty, scheme-less or key-less destination
\* never ends the call in an error.
C30_DestinationSkipped ==
    (NoUsableDest /\ result # <<>>) => (pc \in {"write", "returned"} /\ raised = NoError)

\* the record row with the value of every target column blanked, and the
\* payload made of the header and the blanked records
Blanked(header, fields, row) ==
    [j \in DOMAIN header |->
        IF header[j] \in Range(fields) \/ j > Len(row) THEN <<>> ELSE row[j]]

BlankedPayload(header, fields, data) ==
    csv_writerow(header)
    \o Flatten([r \in DOMAIN data |-> csv_writerow(Blanked(header, fields, data[r]))])

\* C28: the returned payload is the one the call gives for the payload in
\* which every value of a target column is blanked: the output is a function
\* of the header, the number of records and the values of the other columns.
C28_TargetsNotObserved ==
    returned =>
        LET header == InHeader
            data == InData
            again == ObfuscateText(pii_fields, BlankedPayload(header, pii_fields, data))
        IN /\ again.ok
           /\ again.out = result
           /\ Len(csv_reader(BlankedPayload(header, pii_fields, data)).rows) = 1 + Len(data)

C28_Witness ==
    /\ returned
    /\ pii_fields = <<A>>
    /\ InHeader = <<A, B>>
    /\ InData = <<<<B, A>>, <<AB, B>>>>
    /\ BlankedPayload(InHeader, pii_fields, InData) # csv_content

\* C29: the returned payload is what lines 79-111 compute from the fetched
\* payload, and computing it again from the returned payload, with the same
\* pii_fields, succeeds and gives the returned payload.
C29_Idempotent ==
    returned =>
        LET first == ObfuscateText(pii_fields, csv_content)
            second == ObfuscateText(pii_fields, result)
        IN /\ first.ok /\ first.out = result
           /\ second.ok /\ second.out = result

C29_Witness ==
    /\ returned
    /\ pii_fields = <<B>>
    /\ Len(InData) = 2
    /\ \E r \in DOMAIN InData : \E j \in DOMAIN InData[r] : DQ \in Range(InData[r][j])
    /\ result # csv_content

\* the table csv_data holds: the fields of its header and of its other lines
FrameHeader == Split(TextLines(frame.csv_data.text)[1], COMMA)
FrameData ==
    LET lines == TextLines(frame.csv_data.text)
    IN [r \in 1..(Len(lines) - 1) |-> Split(lines[r + 1], COMMA)]

\* C24: obfuscate_csv raises ValueError for csv_data None, for a table
\* without data rows and for pii_fields with names that are not columns,
\* naming all of these; otherwise it returns a CSV in which every listed
\* column is '***' in every row and every other value is the input value.
C24_ObfuscateCsv ==
    (frame.pc = "done" /\ frame.pii_fields # <<>>) =>
        IF frame.csv_data.none \/ Len(TextLines(frame.csv_data.text)) <= 1
        THEN frame.raised.type \in {"ValueError", "EmptyDataError"} /\ frame.out = <<>>
        ELSE LET header == FrameHeader
                 data == FrameData
                 missing == SelectSeq(frame.pii_fields, LAMBDA f : f \notin Range(header))
                 out == csv_reader(frame.out).rows
             IN IF missing # <<>>
                THEN /\ frame.raised.type = "ValueError" /\ frame.raised.arg = missing
                     /\ frame.out = <<>>
                ELSE /\ frame.raised = NoError
                     /\ Len(out) = 1 + Len(data)
                     /\ out[1] = header
                     /\ \A r \in DOMAIN data : \A j \in DOMAIN header :
                           out[r + 1][j] =
                               IF header[j] \in Range(frame.pii_fields) THEN SENTINEL
                               ELSE IF j <= Len(data[r]) THEN data[r][j]
                               ELSE <<>>

\* the run called the real obfuscate_pii, and it returned
RealSuccess == cli.pc = "done" /\ cli.stub = NoStub /\ returned

\* the output the run was given can be written: stdout, a local file, or
\* an S3 path with a bucket and a key whose upload does not fail
SinkUsable ==
    \/ ~Truthy(cli.output_file)
    \/ cli.fn = "local"
    \/ ~HasScheme(cli.output_file.s)
    \/ /\ HasKey(cli.output_file.s) /\ KeyOf(cli.output_file.s) # <<>>
       /\ BucketOf(cli.output_file.s) # <<>> /\ cli.upload = "ok"

\* C22: when obfuscate_pii has returned, the run ends normally and the
\* selected output, and no other, holds exactly the returned bytes.
C22_Delivered ==
    (RealSuccess /\ SinkUsable) =>
        /\ cli.exit = "0"
        /\ IF ~Truthy(cli.output_file)
           THEN /\ cli.stdout = Written(result)
                /\ cli.outfile = NotWritten /\ cli.uploaded = {}
           ELSE IF cli.fn = "s3" /\ HasScheme(cli.output_file.s)
           THEN /\ cli.uploaded = {[op |-> "Put", bucket |-> BucketOf(cli.output_file.s),
                                    key |-> KeyOf(cli.output_file.s), body |-> result,
                                    contentType |-> "text/csv"]}
                /\ cli.outfile = NotWritten /\ cli.stdout = NotWritten
           ELSE /\ cli.outfile = Written(result)
                /\ cli.stdout = NotWritten /\ cli.uploaded = {}

\* the response the run received is a dict, or a str holding one
GotDict == cli.stub.kind \in {"str", "dict"} /\ cli.stub.valid /\ cli.stub.value.kind = "dict"

\* the run reached the upload to an S3 output path, and the upload raised
UploadRaised ==
    /\ cli.fn = "s3" /\ cli.upload = "raises"
    /\ Truthy(cli.output_file) /\ HasKey(cli.output_file.s)
    /\ \/ GotDict /\ cli.stub.value.statusCode = 200 /\ Truthy(cli.stub.value.body)
       \/ cli.stub = NoStub /\ returned

\* C23: a run ends with exit status 1, the output file and the S3 object
\* not written, when the input file is missing, the response is a str that
\* is not JSON, its statusCode is not 200, or obfuscate_pii raises; and a
\* run of process_s3_file whose upload raises ends with exit status 1.
C23_ExitOne ==
    cli.pc = "done" =>
        /\ (\/ cli.fn = "local" /\ cli.file.status = "missing"
            \/ cli.stub.kind = "str" /\ ~cli.stub.valid
            \/ GotDict /\ cli.stub.value.statusCode # 200
            \/ cli.stub = NoStub /\ pc = "raised")
           => (cli.exit = "1" /\ cli.outfile = NotWritten /\ cli.uploaded = {}
               /\ cli.stdout = NotWritten)
        /\ UploadRaised => (cli.exit = "1" /\ cli.uploaded = {})

C23_Witness ==
    /\ cli.pc = "done" /\ cli.fn = "local"
    /\ cli.file.status = "present"
    /\ cli.stub = RespStr(JsonDict(400, Str(<<"Invalid input format">>)))
    /\ cli.output_file = Str(LocalOut)
    /\ cli.exit = "1"

C23_WitnessUpload ==
    /\ cli.pc = "done" /\ UploadRaised
    /\ cli.output_file = Str(GoodDest)
    /\ cli.stub = RespStr(JsonDict(200, Str(MaskedText)))
    /\ cli.exit = "1"

C23_WitnessRaised ==
    /\ cli.pc = "done" /\ cli.stub = NoStub
    /\ pc = "raised" /\ raised.msg = "S3 file not found"
    /\ cli.exit = "1"

\* one whole call of obfuscate_pii on the store st: the store it leaves
\* and what the caller gets
RunCall(st, req, put) ==
    IF st[req.src] = NoObject
    THEN [store |-> st, returned |-> FALSE, result |-> <<>>]
    ELSE LET o == ObfuscateText(req.fields, st[req.src])
         IN IF ~o.ok THEN [store |-> st, returned |-> FALSE, result |-> <<>>]
            ELSE [store |-> IF req.dest # NoDest /\ put = "ok"
                            THEN [st EXCEPT ![req.dest] = o.out] ELSE st,
                  returned |-> TRUE, result |-> o.out]

\* what the callers get and what the store holds when call i runs to its
\* end before call j starts
OneAfterTheOther(i, j) ==
    LET first == RunCall(pair.store0, pair.calls[i].req, pair.calls[i].put)
        second == RunCall(first.store, pair.calls[j].req, pair.calls[j].put)
    IN [store |-> second.store,
        outcome |-> [c \in {i, j} |->
                       IF c = i THEN [returned |-> first.returned, result |-> first.result]
                       ELSE [returned |-> second.returned, result |-> second.result]]]

\* what the callers got and what the store holds
Interleaved ==
    [store |-> pair.store,
     outcome |-> [c \in {1, 2} |-> [returned |-> pair.calls[c].returned,
                                    result |-> pair.calls[c].result]]]

BothEnded == \A c \in {1, 2} : pair.calls[c].pc \in {"returned", "raised"}

DifferentRequests ==
    /\ pair.calls[1].req # pair.calls[2].req
    /\ pair.calls[1].req.dest # pair.calls[2].req.dest

\* C21 as stated: two calls on different requests with different
\* destinations end, whatever the interleaving of their steps, with the
\* payloads and the store of the two calls run one after the other.
C21_Independent ==
    (BothEnded /\ DifferentRequests) =>
        Interleaved \in {OneAfterTheOther(1, 2), OneAfterTheOther(2, 1)}

\* no call writes the object the other call reads
Disjoint ==
    /\ pair.calls[1].req.dest # pair.calls[2].req.src
    /\ pair.calls[2].req.dest # pair.calls[1].req.src

\* C21 amended: when, in addition, neither call writes the object the
\* other reads, every interleaving ends with the payloads and the store of
\* the two calls run one after the other, in either order.
C21_IndependentDisjoint ==
    (BothEnded /\ DifferentRequests /\ Disjoint) =>
        /\ Interleaved = OneAfterTheOther(1, 2)
        /\ Interleaved = OneAfterTheOther(2, 1)

C21_Witness ==
    /\ BothEnded /\ DifferentRequests /\ Disjoint
    /\ pair.calls[1].req.src = "x" /\ pair.calls[2].req.src = "x"
    /\ pair.calls[1].req.dest = "y" /\ pair.calls[2].req.dest = "z"
    /\ pair.calls[2].req.fields = <<B>>
    /\ pair.store["y"] = pair.calls[1].result
    /\ pair.store["z"] = pair.calls[2].result
    /\ pair.store["y"] # pair.store["z"]

====
